---- MODULE Spec2Model ----
(***************************************************************************)
(* Weight-delta bookkeeping, aggregation, clustering and client selection  *)
(* of fl_devices.py (clustered federated learning).                        *)
(*                                                                         *)
(* Parameter maps are Python dicts name -> tensor object.  A tensor object *)
(* is a slot <<kind, owner, key>>; its .data is a storage cell.  ref maps  *)
(* each slot to the cell it is bound to and mem gives each cell's content, *)
(* so that `t.data = x.clone()` (rebinding to fresh storage) and           *)
(* `t.data += x` (writing through the cell) are different things, as they  *)
(* are in the program.                                                     *)
(*                                                                         *)
(* Numbers: float rounding is not modelled.  A tensor holds one element,   *)
(* stored as an integer count of 1/Unit, where Unit is a multiple of every *)
(* possible number of averaged maps, so every mean the program takes of    *)
(* the deltas is exact.                                                    *)
(***************************************************************************)
EXTENDS Integers, Sequences, FiniteSets, TLC

\* ------------------------------------------------------------------ bounds

NumClients == 2
\* at most this many compute_weight_update calls in a run
MaxTrain == 2
\* at most this many aggregate_clusterwise calls that change a map
MaxAgg == 1
\* longest list of cohorts handed to aggregate_clusterwise
MaxCohorts == 2

Clients == 1..NumClients
\* owner 0 is the server
ServerId == 0

\* named_parameters() in insertion order
KeyOrder == <<"weight", "bias">>
Keys == {KeyOrder[i] : i \in 1..Len(KeyOrder)}

RECURSIVE Fact(_)
Fact(n) == IF n <= 1 THEN 1 ELSE n * Fact(n - 1)
Unit == Fact(NumClients)

None == <<"None">>

\* ------------------------------------------------------- maps and storage

ServerW == <<"W", ServerId>>
WOf(c) == <<"W", c>>
WoldOf(c) == <<"W_old", c>>
dWOf(c) == <<"dW", c>>

MapIds == {ServerW} \cup {<<k, c>> : k \in {"W", "W_old", "dW"}, c \in Clients}
Slot(m, n) == <<m[1], m[2], n>>
Slots == {Slot(m, n) : m \in MapIds, n \in Keys}
\* a storage cell is named after the tensor object that first owned it
Cells == Slots

VARIABLES
    ref,         \* tensor object -> the storage cell its .data is bound to
    mem,         \* storage cell -> content
    W_original,  \* client -> the dict self.W_original refers to, or None
    lr,          \* client -> number of 0.99 decays applied to its learning rate
    model_cache, \* Server.model_cache
    idcs_obj,    \* the caller's index list (a mutable object)
    acc_obj,     \* the caller's accuracy list (a mutable object)
    call,        \* the last operation: its name, arguments and outcome
    aggs,        \* aggregate_clusterwise calls so far that wrote to a map
    W_sync,      \* history: client -> value of W right after its last synchronisation
    dW_returned, \* history: client -> sum of W(end) - W(start) over calls that returned
    dW_all,      \* history: the same sum over every call made, raised or returned
    S,           \* clustering: the similarity matrix
    clusters,    \* clustering: result <<c1, c2>> of cluster_clients
    roster,      \* selection: the list passed to select_clients
    frac,        \* selection: the fraction passed, <<numerator, denominator>>
    selection    \* selection: the list returned

heapVars == <<ref, mem>>
clientVars == <<W_original, lr>>
cacheVars == <<model_cache, idcs_obj, acc_obj>>
histVars == <<W_sync, dW_returned, dW_all>>
clusterVars == <<S, clusters>>
selectVars == <<roster, frac, selection>>
vars == <<ref, mem, W_original, lr, model_cache, idcs_obj, acc_obj, call, aggs,
          W_sync, dW_returned, dW_all, S, clusters, roster, frac, selection>>

Heap == [ref |-> ref, mem |-> mem]

\* the content of tensor `key` of map m
Read(h, m, n) == h.mem[h.ref[Slot(m, n)]]
\* map m as a value: key -> content
Value(h, m) == [n \in Keys |-> Read(h, m, n)]

\* x.clone() bound to slot.data: the slot gets storage nothing else refers to.
\* Cell names carry no meaning, so the fresh cell is taken to be the slot's old
\* one when that is released by the rebinding, and any unused cell otherwise.
Rebind(h, slot, v) ==
    LET inUse == {h.ref[s] : s \in Slots \ {slot}}
        cell == IF h.ref[slot] \notin inUse THEN h.ref[slot]
                ELSE CHOOSE a \in Cells : a \notin inUse
    IN [ref |-> [h.ref EXCEPT ![slot] = cell],
        mem |-> [h.mem EXCEPT ![cell] = v]]

\* slot.data += v: writes through the cell, seen by every slot bound to it
AddInPlace(h, slot, v) ==
    [ref |-> h.ref,
     mem |-> [h.mem EXCEPT ![h.ref[slot]] = @ + v]]

\* ------------------------------------------------ parameter-map utilities

RECURSIVE copyFrom(_, _, _, _)
copyFrom(h, target, source, i) ==
    IF i > Len(KeyOrder) THEN h
    ELSE copyFrom(Rebind(h, Slot(target, KeyOrder[i]), Read(h, source, KeyOrder[i])),
                  target, source, i + 1)

\* mutant: `target[name].data = source[name].data`, the clone forgotten
copy_by_reference(h, target, source) ==
    [ref |-> [s \in Slots |->
                IF s[1] = target[1] /\ s[2] = target[2]
                THEN h.ref[Slot(source, s[3])] ELSE h.ref[s]],
     mem |-> h.mem]

copy(h, target, source) == copyFrom(h, target, source, 1)

RECURSIVE get_dWFrom(_, _, _, _, _)
get_dWFrom(h, target, minuend, subtrahend, i) ==
    IF i > Len(KeyOrder) THEN h
    ELSE get_dWFrom(AddInPlace(h, Slot(target, KeyOrder[i]),
                               Read(h, minuend, KeyOrder[i])
                                 - Read(h, subtrahend, KeyOrder[i])),
                    target, minuend, subtrahend, i + 1)

\* mutant: `=` for `+=`, the difference overwrites what dW held
get_dW_overwrite(h, target, minuend, subtrahend) ==
    [ref |-> h.ref,
     mem |-> [a \in Cells |->
                IF \E n \in Keys : h.ref[Slot(target, n)] = a
                THEN LET n == CHOOSE k \in Keys : h.ref[Slot(target, k)] = a
                     IN Read(h, minuend, n) - Read(h, subtrahend, n)
                ELSE h.mem[a]]]

get_dW(h, target, minuend, subtrahend) == get_dWFrom(h, target, minuend, subtrahend, 1)

RECURSIVE SumSeq(_)
SumSeq(s) == IF s = <<>> THEN 0 ELSE Head(s) + SumSeq(Tail(s))

\* mutant: torch.sum for torch.mean
Mean_as_sum(xs) == SumSeq(xs)

\* torch.mean(torch.stack(xs), dim=0) of one-element tensors
Mean(xs) == SumSeq(xs) \div Len(xs)

\* One target of reduce_add_average, keys from i on.  torch.stack of an empty
\* list raises RuntimeError.
RECURSIVE reduceTarget(_, _, _, _)
reduceTarget(r, target, sources, i) ==
    IF r.err # "ok" \/ i > Len(KeyOrder) THEN r
    ELSE IF sources = <<>> THEN [h |-> r.h, err |-> "RuntimeError"]
    ELSE LET tmp == Mean([j \in 1..Len(sources) |-> Read(r.h, sources[j], KeyOrder[i])])
         IN reduceTarget([h |-> AddInPlace(r.h, Slot(target, KeyOrder[i]), tmp),
                          err |-> "ok"],
                         target, sources, i + 1)

RECURSIVE reduceTargets(_, _, _, _)
reduceTargets(r, targets, sources, t) ==
    IF r.err # "ok" \/ t > Len(targets) THEN r
    ELSE reduceTargets(reduceTarget(r, targets[t], sources, 1), targets, sources, t + 1)

reduce_add_average(h, targets, sources) ==
    reduceTargets([h |-> h, err |-> "ok"], targets, sources, 1)

\* A call of reduce_add_average by keyword: an argument name that is no
\* parameter of the function raises TypeError before the body runs.
reduce_add_average_params == {"targets", "sources"}

call_reduce_add_average(h, kwargs) ==
    IF DOMAIN kwargs = reduce_add_average_params
    THEN reduce_add_average(h, kwargs.targets, kwargs.sources)
    ELSE [h |-> h, err |-> "TypeError"]

\* ------------------------------------------------------------------ inputs

RECURSIVE SeqOfSet(_)
\* the members of a set of clients as a list, lowest id first
SeqOfSet(A) ==
    IF A = {} THEN <<>>
    ELSE LET a == CHOOSE x \in A : \A y \in A : x <= y
         IN <<a>> \o SeqOfSet(A \ {a})

\* lists of distinct clients, the empty list among them
ClientLists == {SeqOfSet(A) : A \in SUBSET Clients}
Cohorts == ClientLists \ {<<>>}
\* a cohort's place in a list of cohorts: lists are given lowest rank first
Rank(clients) == SumSeq([i \in 1..Len(clients) |-> 2 ^ (clients[i] - 1)])

RECURSIVE ListOfCohorts(_)
ListOfCohorts(A) ==
    IF A = {} THEN <<>>
    ELSE LET a == CHOOSE x \in A : \A y \in A : Rank(x) <= Rank(y)
         IN <<a>> \o ListOfCohorts(A \ {a})

\* lists of at most MaxCohorts different non-empty cohorts, overlapping ones among them
CohortLists == {ListOfCohorts(A) : A \in {B \in SUBSET Cohorts : Cardinality(B) <= MaxCohorts}}
Members(clients) == {clients[i] : i \in 1..Len(clients)}

\* What one run of the training oracle adds to W, in whole numbers.
TrainSteps == {[n \in Keys |-> IF n = "weight" THEN 1 ELSE 0],
               [n \in Keys |-> IF n = "weight" THEN -1 ELSE 2]}
ZeroStep == [n \in Keys |-> 0]
\* what the oracle has added to W when it raises
PartialSteps == {ZeroStep, [n \in Keys |-> IF n = "weight" THEN 1 ELSE 0]}
Outcomes == {"ok", "OracleFailure"}

\* model_fn() of each device: the parameters it is constructed with
InitialW(o) == [n \in Keys |-> IF n = "weight" THEN Unit * (o + 1) ELSE Unit * (0 - o)]

\* ------------------------------------------------------------------- Init

\* the devices as constructed: every model freshly built, dW and W_old zero,
\* no W_original attribute yet, the cache empty
InitDevices ==
    /\ ref = [s \in Slots |-> s]
    /\ mem = [s \in Cells |-> IF s[1] = "W" THEN InitialW(s[2])[s[3]] ELSE 0]
    /\ W_original = [c \in Clients |-> None]
    /\ lr = [c \in Clients |-> 0]
    /\ model_cache = <<>>
    /\ call = [op |-> "init", args |-> <<>>, ret |-> "ok"]
    /\ aggs = 0
    /\ W_sync = [c \in Clients |-> None]
    /\ dW_returned = [c \in Clients |-> ZeroStep]
    /\ dW_all = [c \in Clients |-> ZeroStep]

NoCallerLists == idcs_obj = <<>> /\ acc_obj = <<>>
NoClustering == S = <<>> /\ clusters = <<>>
NoSelection == roster = <<>> /\ frac = <<0, 1>> /\ selection = <<>>

Init == InitDevices /\ NoCallerLists /\ NoClustering /\ NoSelection

\* ----------------------------------------------------------------- Client

\* mutant: every client is built around one and the same model object
train_op_shared_model(h, c, step) ==
    [ref |-> h.ref,
     mem |-> [a \in Cells |->
                h.mem[a] + SumSeq([i \in 1..Len(KeyOrder) |->
                    IF \E d \in Clients : h.ref[Slot(WOf(d), KeyOrder[i])] = a
                    THEN Unit * step[KeyOrder[i]] ELSE 0])]]

\* train_op: the optimizer steps write through the model's live parameters
train_op(h, c, step) ==
    [ref |-> h.ref,
     mem |-> [a \in Cells |->
                h.mem[a] + SumSeq([i \in 1..Len(KeyOrder) |->
                    IF h.ref[Slot(WOf(c), KeyOrder[i])] = a
                    THEN Unit * step[KeyOrder[i]] ELSE 0])]]

\* compute_weight_update has no handler around train_op: what the oracle
\* raises is what the call ends in
uncaught(outcome) == outcome

TotalTrain == SumSeq([c \in 1..NumClients |-> lr[c]])

synchronize_with_server(c) ==
    LET h1 == copy(Heap, WOf(c), ServerW)
    IN /\ ref' = h1.ref
       /\ mem' = h1.mem
       /\ W_original' = [W_original EXCEPT ![c] = WOf(c)]
       /\ W_sync' = [W_sync EXCEPT ![c] = Value(h1, WOf(c))]
       /\ call' = [op |-> "synchronize_with_server", args |-> <<c>>, ret |-> "ok"]
       /\ UNCHANGED <<lr, cacheVars, aggs, dW_returned, dW_all, clusterVars, selectVars>>

compute_weight_update(c, step, outcome) ==
    /\ TotalTrain < MaxTrain
    /\ outcome = "ok" => step \in TrainSteps
    /\ outcome # "ok" => step \in PartialSteps
    /\ LET h1 == copy(Heap, WoldOf(c), WOf(c))
           h2 == train_op(h1, c, step)
           h3 == IF outcome = "ok"
                 THEN get_dW(h2, dWOf(c), WOf(c), WoldOf(c))
                 ELSE h2
           moved == [n \in Keys |-> (Read(h2, WOf(c), n) - Read(Heap, WOf(c), n)) \div Unit]
       IN /\ ref' = h3.ref
          /\ mem' = h3.mem
          /\ dW_all' = [dW_all EXCEPT ![c] = [n \in Keys |-> @[n] + moved[n]]]
          /\ dW_returned' = IF outcome = "ok"
                            THEN [dW_returned EXCEPT ![c] = [n \in Keys |-> @[n] + moved[n]]]
                            ELSE dW_returned
    /\ lr' = [lr EXCEPT ![c] = @ + 1]
    /\ call' = [op |-> "compute_weight_update", args |-> <<c>>, oracle |-> outcome,
                ret |-> uncaught(outcome)]
    /\ UNCHANGED <<W_original, cacheVars, aggs, W_sync, clusterVars, selectVars>>

reset(c) ==
    /\ IF W_original[c] = None
       THEN /\ call' = [op |-> "reset", args |-> <<c>>, ret |-> "AttributeError"]
            /\ UNCHANGED heapVars
       ELSE LET h1 == copy(Heap, WOf(c), W_original[c])
            IN /\ ref' = h1.ref
               /\ mem' = h1.mem
               /\ call' = [op |-> "reset", args |-> <<c>>, ret |-> "ok"]
    /\ UNCHANGED <<clientVars, cacheVars, aggs, histVars, clusterVars, selectVars>>

\* ----------------------------------------------------------------- Server

MapList(kind, clients) == [i \in 1..Len(clients) |-> <<kind, clients[i]>>]

aggregate_weight_updates(clients) ==
    LET r == call_reduce_add_average(Heap,
                 [target |-> ServerW, sources |-> MapList("dW", clients)])
    IN /\ ref' = r.h.ref
       /\ mem' = r.h.mem
       /\ call' = [op |-> "aggregate_weight_updates", args |-> clients, ret |-> r.err]
       /\ UNCHANGED <<clientVars, cacheVars, aggs, histVars, clusterVars, selectVars>>

RECURSIVE clusterwiseFrom(_, _, _)
clusterwiseFrom(r, client_clusters, i) ==
    IF r.err # "ok" \/ i > Len(client_clusters) THEN r
    ELSE clusterwiseFrom(
             call_reduce_add_average(r.h,
                 [targets |-> MapList("W", client_clusters[i]),
                  sources |-> MapList("dW", client_clusters[i])]),
             client_clusters, i + 1)

aggregate_clusterwise_result(h, client_clusters) ==
    clusterwiseFrom([h |-> h, err |-> "ok"], client_clusters, 1)

aggregate_clusterwise(client_clusters) ==
    /\ aggs < MaxAgg
    /\ LET r == aggregate_clusterwise_result(Heap, client_clusters)
       IN /\ ref' = r.h.ref
          /\ mem' = r.h.mem
          /\ aggs' = IF r.h = Heap THEN aggs ELSE aggs + 1
          /\ call' = [op |-> "aggregate_clusterwise", args |-> client_clusters, ret |-> r.err]
    /\ UNCHANGED <<clientVars, cacheVars, histVars, clusterVars, selectVars>>

\* clients[0] of an empty list raises IndexError.  sum(...) starts from the
\* integer 0 and builds new tensors, and the division is in place on such a new
\* tensor: the result is a map of its own and no map of a device is written.
get_average_dw(clients) ==
    /\ call' = [op |-> "get_average_dw", args |-> <<>>,
                ret |-> IF clients = <<>> THEN "IndexError" ELSE "ok"]
    /\ UNCHANGED <<heapVars, clientVars, cacheVars, aggs, histVars, clusterVars, selectVars>>

\* flatten builds a new tensor (torch.cat), so the norms and the similarities
\* read the deltas and write nothing.
\* np.max of an empty list raises ValueError
compute_max_update_norm(cluster) ==
    /\ call' = [op |-> "compute_max_update_norm", args |-> <<>>,
                ret |-> IF cluster = <<>> THEN "ValueError" ELSE "ok"]
    /\ UNCHANGED <<heapVars, clientVars, cacheVars, aggs, histVars, clusterVars, selectVars>>

\* torch.stack of an empty list raises RuntimeError
compute_mean_update_norm(cluster) ==
    /\ call' = [op |-> "compute_mean_update_norm", args |-> <<>>,
                ret |-> IF cluster = <<>> THEN "RuntimeError" ELSE "ok"]
    /\ UNCHANGED <<heapVars, clientVars, cacheVars, aggs, histVars, clusterVars, selectVars>>

\* pairwise_angles of no map at all is the empty matrix, not an error
compute_pairwise_similarities(clients) ==
    /\ call' = [op |-> "compute_pairwise_similarities", args |-> <<>>, ret |-> "ok"]
    /\ UNCHANGED <<heapVars, clientVars, cacheVars, aggs, histVars, clusterVars, selectVars>>

\* ------------------------------------------------------------ model cache

MaxCache == 1

\* Python indices count from 0
At0(list, i) == list[i + 1]
InRange0(list, i) == 0 <= i /\ i < Len(list)

\* The entry keeps the list object idcs itself, a clone of every tensor of
\* params and a new list of the accuracies picked by idcs.
cache_entry(h, idcs_ref, idcs, params, accuracies) ==
    [idcs |-> idcs_ref,
     params |-> [n \in Keys |-> Read(h, params, n)],
     accuracies |-> [k \in 1..Len(idcs) |-> At0(accuracies, idcs[k])]]

cache_model(params) ==
    /\ Len(model_cache) < MaxCache
    /\ IF \A k \in 1..Len(idcs_obj) : InRange0(acc_obj, idcs_obj[k])
       THEN /\ model_cache' = model_cache \o
                    <<cache_entry(Heap, "idcs_obj", idcs_obj, params, acc_obj)>>
            /\ call' = [op |-> "cache_model", args |-> params, ret |-> "ok"]
       ELSE /\ model_cache' = model_cache
            /\ call' = [op |-> "cache_model", args |-> params, ret |-> "IndexError"]
    /\ UNCHANGED <<heapVars, clientVars, idcs_obj, acc_obj, aggs, histVars,
                   clusterVars, selectVars>>

\* what a reader of the cache sees of an entry: its index list is whatever the
\* list object it refers to holds now
Deref(x) == IF x = "idcs_obj" THEN idcs_obj ELSE x
entry_view(e) == [idcs |-> Deref(e.idcs), params |-> e.params, accuracies |-> e.accuracies]
cache_view == [k \in 1..Len(model_cache) |-> entry_view(model_cache[k])]

\* the caller of cache_model goes on using the lists it passed
AccuracyValues == {50, 75}
caller_writes_idcs(k, i) ==
    /\ k \in 1..Len(idcs_obj)
    /\ idcs_obj[k] # i
    /\ idcs_obj' = [idcs_obj EXCEPT ![k] = i]
    /\ call' = [op |-> "caller_writes_idcs", args |-> <<k, i>>, ret |-> "ok"]
    /\ UNCHANGED <<heapVars, clientVars, model_cache, acc_obj, aggs, histVars,
                   clusterVars, selectVars>>

caller_writes_accuracies(k, a) ==
    /\ k \in 1..Len(acc_obj)
    /\ acc_obj[k] # a
    /\ acc_obj' = [acc_obj EXCEPT ![k] = a]
    /\ call' = [op |-> "caller_writes_accuracies", args |-> <<k, a>>, ret |-> "ok"]
    /\ UNCHANGED <<heapVars, clientVars, model_cache, idcs_obj, aggs, histVars,
                   clusterVars, selectVars>>

\* ------------------------------------------------------------------- Next

Next ==
    \/ \E c \in Clients : synchronize_with_server(c)
    \/ \E c \in Clients, step \in TrainSteps \cup PartialSteps, outcome \in Outcomes :
           compute_weight_update(c, step, outcome)
    \/ \E c \in Clients : reset(c)
    \/ \E clients \in ClientLists : aggregate_weight_updates(clients)
    \/ \E client_clusters \in CohortLists : aggregate_clusterwise(client_clusters)

Spec == Init /\ [][Next]_vars

\* Every operation of the server and of the clients, and the caller's own
\* writes to the lists it handed to cache_model.
AllClients == SeqOfSet(Clients)
FirstStep == [n \in Keys |-> IF n = "weight" THEN 1 ELSE 0]

InitAll ==
    /\ InitDevices /\ NoClustering /\ NoSelection
    /\ idcs_obj = <<1, 0>>
    /\ acc_obj = <<50, 75>>

NextAll ==
    \/ \E c \in Clients : synchronize_with_server(c)
    \/ \E c \in Clients, outcome \in Outcomes : compute_weight_update(c, FirstStep, outcome)
    \/ \E c \in Clients : reset(c)
    \/ \E clients \in {<<>>, AllClients} : aggregate_weight_updates(clients)
    \/ aggregate_clusterwise(<<AllClients>>)
    \/ \E clients \in {<<>>, AllClients} : get_average_dw(clients)
    \/ \E clients \in {<<>>, AllClients} : compute_max_update_norm(clients)
    \/ \E clients \in {<<>>, AllClients} : compute_mean_update_norm(clients)
    \/ \E clients \in {<<>>, AllClients} : compute_pairwise_similarities(clients)
    \/ \E params \in {ServerW, WOf(1)} : cache_model(params)

SpecAll == InitAll /\ [][NextAll]_vars

\* The model cache under training, synchronisation, aggregation and the
\* caller's own writes to the lists it handed over.
NextCache ==
    \/ \E params \in {ServerW, WOf(1)} : cache_model(params)
    \/ \E k \in 1..2, i \in 0..1 : caller_writes_idcs(k, i)
    \/ \E k \in 1..2, a \in AccuracyValues : caller_writes_accuracies(k, a)
    \/ synchronize_with_server(1)
    \/ compute_weight_update(1, FirstStep, "ok")
    \/ aggregate_clusterwise(<<AllClients>>)

SpecCache == InitAll /\ [][NextCache]_vars

\* ---------------------------------------------------- reduce_add_average

\* reduce_add_average called on lists of maps, as aggregate_clusterwise calls it
reduce_add_average_call(targets, sources) ==
    /\ aggs < MaxAgg
    /\ LET r == call_reduce_add_average(Heap,
                    [targets |-> MapList("W", targets), sources |-> MapList("dW", sources)])
       IN /\ ref' = r.h.ref
          /\ mem' = r.h.mem
          /\ aggs' = IF r.h = Heap THEN aggs ELSE aggs + 1
          /\ call' = [op |-> "reduce_add_average",
                      args |-> [targets |-> targets, sources |-> sources], ret |-> r.err]
    /\ UNCHANGED <<clientVars, cacheVars, histVars, clusterVars, selectVars>>

\* lists of at most MaxCohorts cohorts, empty cohorts among them
CohortListsWithEmpty == UNION {[1..k -> ClientLists] : k \in 0..MaxCohorts}

NextAverage ==
    \/ \E c \in Clients, step \in TrainSteps : compute_weight_update(c, step, "ok")
    \/ \E targets \in ClientLists, sources \in ClientLists :
           reduce_add_average_call(targets, sources)
    \/ \E client_clusters \in CohortListsWithEmpty : aggregate_clusterwise(client_clusters)

SpecAverage == Init /\ [][NextAverage]_vars

\* --------------------------------------------------------- cluster_clients

\* most clients handed to cluster_clients
MaxN == 4
\* similarities, in hundredths
SimValues == {-100, 0, 100}
Idx(n) == 0..(n - 1)
UpperPairs(n) == {p \in Idx(n) \X Idx(n) : p[1] < p[2]}
SymMatrices(n) ==
    {[p \in Idx(n) \X Idx(n) |->
        IF p[1] = p[2] THEN 100
        ELSE IF p[1] < p[2] THEN u[p] ELSE u[<<p[2], p[1]>>]] :
     u \in [UpperPairs(n) -> SimValues]}

MaxOf(A) == CHOOSE x \in A : \A y \in A : y <= x

\* complete linkage: the distance of two clusters is that of their farthest members
Linkage(D, A, B) == MaxOf({D[<<i, j>>] : i \in A, j \in B})

ClosestPairs(D, P) ==
    {pr \in SUBSET P :
        /\ Cardinality(pr) = 2
        /\ \A qr \in SUBSET P : Cardinality(qr) = 2 =>
              LET A == CHOOSE x \in pr : TRUE
                  B == CHOOSE x \in pr : x # A
                  X == CHOOSE x \in qr : TRUE
                  Y == CHOOSE x \in qr : x # X
              IN Linkage(D, A, B) <= Linkage(D, X, Y)}

\* Agglomerative merging down to n_clusters = 2 (the library's default): the
\* partitions it can end in, whichever closest pair a tie is broken for.
RECURSIVE Agglomerate(_, _)
Agglomerate(D, P) ==
    IF Cardinality(P) <= 2 THEN {P}
    ELSE UNION {Agglomerate(D, (P \ pr) \cup {UNION pr}) : pr \in ClosestPairs(D, P)}

\* labels_ of the fitted clustering: one cluster is numbered 0, the other 1
FitLabels(n, D) ==
    {[i \in Idx(n) |-> IF i \in A THEN 0 ELSE 1] :
        A \in UNION Agglomerate(D, {{i} : i \in Idx(n)})}

\* np.argwhere(labels_ == k).flatten(): the indices labelled k
ArgWhere(n, labels, k) == {i \in Idx(n) : labels[i] = k}

Negated(n, M) == [p \in Idx(n) \X Idx(n) |-> 0 - M[p]]

\* mutant: fit(S) for fit(-S)
cluster_clients_results_unnegated(n, M) ==
    {<<ArgWhere(n, labels, 0), ArgWhere(n, labels, 1)>> : labels \in FitLabels(n, M)}

\* the pairs <<c1, c2>> cluster_clients can return for the matrix M
cluster_clients_results(n, M) ==
    {<<ArgWhere(n, labels, 0), ArgWhere(n, labels, 1)>> : labels \in FitLabels(n, Negated(n, M))}

cluster_clients ==
    /\ call.op = "init"
    /\ IF S.n < 2
       THEN /\ clusters' = <<>>
            /\ call' = [op |-> "cluster_clients", args |-> <<>>, ret |-> "ValueError"]
       ELSE /\ clusters' \in cluster_clients_results(S.n, S.m)
            /\ call' = [op |-> "cluster_clients", args |-> <<>>, ret |-> "ok"]
    /\ UNCHANGED <<heapVars, clientVars, cacheVars, aggs, histVars, S, selectVars>>

InitCluster ==
    /\ InitDevices /\ NoCallerLists /\ NoSelection
    /\ \E n \in 1..MaxN : S \in {[n |-> n, m |-> M] : M \in SymMatrices(n)}
    /\ clusters = <<>>

NextCluster == cluster_clients

SpecCluster == InitCluster /\ [][NextCluster]_vars

\* ---------------------------------------------------------- select_clients

\* longest roster handed to select_clients
MaxRoster == 4
\* fractions as <<numerator, denominator>>
Fracs == {<<0, 1>>, <<1, 3>>, <<1, 2>>, <<2, 3>>, <<1, 1>>}

\* int(x) of a float x >= 0 is its floor
IntOfProduct(n, f) == (n * f[1]) \div f[2]

\* mutant: random.choices for random.sample, positions may repeat
Samples_with_replacement(population, k) ==
    {[i \in 1..k |-> population[pos[i]]] : pos \in [1..k -> 1..Len(population)]}

\* random.sample(population, k): k members at k different positions, in any
\* order; the population is copied, not touched
Samples(population, k) ==
    {[i \in 1..k |-> population[pos[i]]] :
        pos \in {q \in [1..k -> 1..Len(population)] :
                    \A i, j \in 1..k : i # j => q[i] # q[j]}}

select_clients ==
    /\ call.op = "init"
    /\ selection' \in Samples(roster, IntOfProduct(Len(roster), frac))
    /\ call' = [op |-> "select_clients", args |-> <<>>, ret |-> "ok"]
    /\ UNCHANGED <<heapVars, clientVars, cacheVars, aggs, histVars, clusterVars, roster, frac>>

InitSelect ==
    /\ InitDevices /\ NoCallerLists /\ NoClustering
    /\ \/ /\ \E n \in 0..MaxRoster : roster = [i \in 1..n |-> i]
          /\ frac \in Fracs
       \/ /\ roster = [i \in 1..10 |-> i]
          /\ frac = <<1, 2>>
    /\ selection = <<>>

NextSelect == select_clients

SpecSelect == InitSelect /\ [][NextSelect]_vars

\* ================================================================ claims

PairwiseDisjoint(client_clusters) ==
    \A i, j \in 1..Len(client_clusters) :
        i # j => Members(client_clusters[i]) \cap Members(client_clusters[j]) = {}

\* the elementwise mean of dW over the clients of a list, in state h
MeanOfdW(h, clients) ==
    [n \in Keys |->
        LET total == SumSeq([j \in 1..Len(clients) |-> Read(h, dWOf(clients[j]), n)])
        IN total \div Len(clients)]

Plus(a, b) == [n \in Keys |-> a[n] + b[n]]
Times(k, a) == [n \in Keys |-> k * a[n]]

HeapNext == [ref |-> ref', mem |-> mem']

\* C1 (as claimed): a reset that follows a synchronisation and training only
\* (no aggregation has written to any map) succeeds and leaves W equal, key by
\* key, to the value W had right after that synchronisation.
C1_ResetRestoresSyncSnapshot ==
    \A c \in Clients :
        (call.op = "reset" /\ call.args = <<c>> /\ W_sync[c] # None /\ aggs = 0)
            => (call.ret = "ok" /\ Value(Heap, WOf(c)) = W_sync[c])

\* C2 (as claimed): aggregate_weight_updates over a non-empty list of clients
\* returns normally, adds to every key of the server's W the mean of that key's
\* dW over the clients, and changes no client's W, W_old or dW.
C2_AggregateGlobalAddsMean ==
    [][(call'.op = "aggregate_weight_updates" /\ call'.args # <<>>)
         => /\ call'.ret = "ok"
            /\ Value(HeapNext, ServerW)
                 = Plus(Value(Heap, ServerW), MeanOfdW(Heap, call'.args))
            /\ \A c \in Clients :
                  /\ Value(HeapNext, WOf(c)) = Value(Heap, WOf(c))
                  /\ Value(HeapNext, WoldOf(c)) = Value(Heap, WoldOf(c))
                  /\ Value(HeapNext, dWOf(c)) = Value(Heap, dWOf(c))]_vars

\* C3: aggregate_clusterwise over pairwise-disjoint non-empty cohorts returns
\* normally; each member's W becomes its W before the call plus the mean of dW
\* (as it was before the call) over its own cohort; every dW, the W of every
\* client in no cohort and the server's W are unchanged.
C3_ClusterwiseAddsCohortMean ==
    [][(/\ call'.op = "aggregate_clusterwise"
        /\ PairwiseDisjoint(call'.args)
        /\ \A k \in 1..Len(call'.args) : call'.args[k] # <<>>)
         => /\ call'.ret = "ok"
            /\ \A c \in Clients :
                  /\ Value(HeapNext, dWOf(c)) = Value(Heap, dWOf(c))
                  /\ \A k \in 1..Len(call'.args) :
                        c \in Members(call'.args[k]) =>
                            Value(HeapNext, WOf(c))
                              = Plus(Value(Heap, WOf(c)), MeanOfdW(Heap, call'.args[k]))
                  /\ (\A k \in 1..Len(call'.args) : c \notin Members(call'.args[k]))
                        => Value(HeapNext, WOf(c)) = Value(Heap, WOf(c))
            /\ Value(HeapNext, ServerW) = Value(Heap, ServerW)]_vars

\* C3 witness: a cohort of two clients with different deltas has been
\* aggregated, its mean not a whole number on some key.
C3_Witness ==
    /\ call.op = "aggregate_clusterwise"
    /\ call.ret = "ok"
    /\ PairwiseDisjoint(call.args)
    /\ \E k \in 1..Len(call.args) :
          /\ Len(call.args[k]) >= 2
          /\ Value(Heap, dWOf(call.args[k][1])) # Value(Heap, dWOf(call.args[k][2]))
          /\ MeanOfdW(Heap, call.args[k]) # ZeroStep
          /\ \E n \in Keys : MeanOfdW(Heap, call.args[k])[n] % Unit # 0

\* C4 (as claimed): dW is the sum, over every compute_weight_update call made
\* so far, of W at the end of the call minus W at its start.
C4_dWIsSumOverAllCalls ==
    \A c \in Clients : Value(Heap, dWOf(c)) = Times(Unit, dW_all[c])

\* C4 (amended): dW is the sum, over the compute_weight_update calls that
\* returned normally, of W at the end of the call minus W at its start; no
\* other operation, and no call in which the oracle raised, changes it.
C4_dWIsSumOverReturnedCalls ==
    \A c \in Clients : Value(Heap, dWOf(c)) = Times(Unit, dW_returned[c])

\* C4 witness: a client has accumulated two returned calls, around a
\* synchronisation and an aggregation that wrote to its W.
C4_Witness ==
    \E c \in Clients :
        /\ lr[c] >= 2
        /\ dW_returned[c] = dW_all[c]
        /\ dW_returned[c] # ZeroStep
        /\ W_sync[c] # None
        /\ aggs > 0

\* C7 (as claimed): averaging with no source never returns normally, whatever
\* the targets: reduce_add_average with an empty list of sources, and
\* aggregate_clusterwise with an empty cohort in its input, end in an error.
C7_EmptySourcesAlwaysFail ==
    /\ (call.op = "reduce_add_average" /\ call.args.sources = <<>>) => call.ret # "ok"
    /\ (call.op = "aggregate_clusterwise"
          /\ \E k \in 1..Len(call.args) : call.args[k] = <<>>) => call.ret # "ok"

\* what aggregating a list of cohorts gives for everyone but client c
OutcomeWithout(h, c, client_clusters) ==
    LET r == aggregate_clusterwise_result(h, client_clusters)
    IN <<r.err, [m \in MapIds \ {WOf(c), WoldOf(c), dWOf(c)} |-> Value(r.h, m)]>>

GlobalOutcomeWithout(h, c, clients) ==
    LET r == call_reduce_add_average(h,
                 [target |-> ServerW, sources |-> MapList("dW", clients)])
    IN <<r.err, [m \in MapIds \ {WOf(c), WoldOf(c), dWOf(c)} |-> Value(r.h, m)]>>

Without(c) == {SeqOfSet(A) : A \in SUBSET (Clients \ {c})}

\* C8: when the oracle raises in client c's compute_weight_update, the call
\* ends in that error, c's dW is as before, the W, W_old and dW of every other
\* client and the server's W are as before, and aggregating any clients other
\* than c (globally or by cohorts) gives what it would have given before the call.
C8_OracleFailureLeavesOthersIntact ==
    [][\A c \in Clients :
        (call'.op = "compute_weight_update" /\ call'.args = <<c>>
           /\ call'.oracle = "OracleFailure")
         => /\ call'.ret = "OracleFailure"
            /\ Value(HeapNext, dWOf(c)) = Value(Heap, dWOf(c))
            /\ \A d \in Clients \ {c} :
                  /\ Value(HeapNext, WOf(d)) = Value(Heap, WOf(d))
                  /\ Value(HeapNext, WoldOf(d)) = Value(Heap, WoldOf(d))
                  /\ Value(HeapNext, dWOf(d)) = Value(Heap, dWOf(d))
            /\ Value(HeapNext, ServerW) = Value(Heap, ServerW)
            /\ \A clients \in Without(c) :
                  /\ OutcomeWithout(HeapNext, c, <<clients>>)
                       = OutcomeWithout(Heap, c, <<clients>>)
                  /\ GlobalOutcomeWithout(HeapNext, c, clients)
                       = GlobalOutcomeWithout(Heap, c, clients)]_vars

\* C8 witness: the oracle has raised for one client, after moving its W, while
\* another client holds a delta to aggregate.
C8_Witness ==
    \E c \in Clients, d \in Clients :
        /\ c # d
        /\ call.op = "compute_weight_update" /\ call.args = <<c>>
        /\ call.ret = "OracleFailure"
        /\ Value(Heap, WOf(c)) # Value(Heap, WoldOf(c))
        /\ Value(Heap, dWOf(d)) # ZeroStep

\* C9 (as claimed): the cache is append-only and what a stored entry shows (its
\* member indices, its parameter snapshot, its accuracies) never changes.
C9_CacheEntriesNeverChange ==
    [][/\ Len(model_cache') >= Len(model_cache)
       /\ \A k \in 1..Len(model_cache) : cache_view'[k] = cache_view[k]]_vars

\* slots of two different devices
DifferentOwners(s, t) == s[2] # t[2]

NoSharedStorage ==
    \A s \in Slots, t \in Slots : DifferentOwners(s, t) => ref[s] # ref[t]

ServerCells == {ref[Slot(ServerW, n)] : n \in Keys}

\* C10: no tensor of a client's W, W_old or dW shares storage with the server's
\* W or with a map of another client, and no operation other than
\* aggregate_weight_updates changes the server's W or writes to its storage.
C10_ServerWOnlyByAggregateGlobal ==
    /\ []NoSharedStorage
    /\ [][call'.op # "aggregate_weight_updates"
            => /\ Value(HeapNext, ServerW) = Value(Heap, ServerW)
               /\ \A n \in Keys : ref'[Slot(ServerW, n)] = ref[Slot(ServerW, n)]
               /\ \A a \in ServerCells : mem'[a] = mem[a]]_vars

\* C10 witness: a synchronised client has trained away from the server's W,
\* which still holds what it was constructed with.
C10_Witness ==
    \E c \in Clients :
        /\ call.op = "compute_weight_update" /\ call.args = <<c>> /\ call.ret = "ok"
        /\ W_sync[c] = Value(Heap, ServerW)
        /\ Value(Heap, WOf(c)) # Value(Heap, ServerW)
        /\ Value(Heap, ServerW) = InitialW(ServerId)
        /\ Len(model_cache) > 0

\* C5: for a symmetric matrix over n >= 2 clients cluster_clients returns two
\* non-empty disjoint sets whose union is 0..n-1; from three clients on, two
\* clients of greatest similarity are in the same set (the first merge of
\* complete linkage on distance = -similarity).
C5_SplitIsPartition ==
    (call.op = "cluster_clients" /\ S.n >= 2)
        => /\ call.ret = "ok"
           /\ clusters[1] # {} /\ clusters[2] # {}
           /\ clusters[1] \cap clusters[2] = {}
           /\ clusters[1] \cup clusters[2] = Idx(S.n)
           /\ S.n >= 3 =>
                 \E p \in UpperPairs(S.n) :
                    /\ \A q \in UpperPairs(S.n) : S.m[q] <= S.m[p]
                    /\ \E k \in 1..2 : p[1] \in clusters[k] /\ p[2] \in clusters[k]

\* C5 witness: four clients whose similarities are all equal have been split.
C5_Witness ==
    /\ call.op = "cluster_clients" /\ call.ret = "ok"
    /\ S.n = 4
    /\ \A p \in Idx(4) \X Idx(4) : S.m[p] = 100
    /\ Cardinality(clusters[1]) + Cardinality(clusters[2]) = 4

\* C6: select_clients returns floor(n * f) clients of the roster, no client
\* twice, and leaves the roster as it was.
C6_SelectionIsSample ==
    [][call'.op = "select_clients"
         => /\ Len(selection') * frac[2] <= Len(roster) * frac[1]
            /\ Len(roster) * frac[1] < (Len(selection') + 1) * frac[2]
            /\ \A i, j \in 1..Len(selection') : i # j => selection'[i] # selection'[j]
            /\ \A i \in 1..Len(selection') :
                  \E j \in 1..Len(roster) : selection'[i] = roster[j]
            /\ roster' = roster]_vars

\* C6 witness: half of a roster of ten has been selected, five clients.
C6_Witness ==
    /\ call.op = "select_clients"
    /\ Len(roster) = 10
    /\ frac = <<1, 2>>
    /\ Len(selection) = 5

====
